---- MODULE Spec2Model ----
(***************************************************************************)
(* The checkpoint queue of the Bitcoin bridge (src/src/bitcoin/            *)
(* checkpoint.rs), built with the feature "full": a Deque of Checkpoints   *)
(* addressed by a global index, the accessors over it, and the three       *)
(* mutating operations maybe_advance, push_building and sign_checkpoint.   *)
(* SignatorySet and ThresholdSig live in sibling modules (super::signatory,*)
(* super::threshold_sig) whose code is not part of the sources at hand;    *)
(* they are modelled from their documented contracts.                      *)
(***************************************************************************)
EXTENDS Integers, Sequences, FiniteSets, TLC

\* ------------------------------------------------------------- bounds
\* push_building is only taken while the window is shorter than this.
MaxLen == 3
\* Global index of the oldest entry of a queue restored from the store, when
\* that is not 0.
MaxStart == 3
\* Validators (consensus keys) of the host chain.
NumValidators == 4
\* Inputs a Building checkpoint restored from the store may already hold.
MaxDeposits == 1

\* ---------------------------------------------------------- constants
INITIAL_QUORUM_PERCENT == 70

\* The node binary is built with the feature "full" (#[cfg(feature = "full")]).
feature_full == TRUE

VARIABLES
    queue,  \* CheckpointQueue.queue: the Deque, oldest entry first
    index,  \* CheckpointQueue.index: global index of the newest entry (u32)
    ret     \* the last call: the operation, its argument and what it returned

vars == <<queue, index, ret>>

\* ------------------------------------------------- host-provided inputs
Validators == 1..NumValidators

\* The validator power table of the host chain: one heavy validator, the
\* others equally weighted.
VotingPower(v) == IF v = 1 THEN 3 ELSE 1

\* sig_keys: Map<ConsensusKey, Xpub>, as the set of validators that have
\* registered a Bitcoin key.  No key registered; a heavy and a light signer;
\* the equally weighted signers.
ValidatorCtxs == { {}, {1, 2}, Validators \ {1} }

\* Signatures as submitted with pubkey: made by the holder of pubkey or by
\* somebody else, over the checkpoint's signing message or over another one.
Signatures(pubkey) ==
    [by : {pubkey, (pubkey % NumValidators) + 1}, msg : {"sighash", "other"}]

\* --------------------------------------------- collaborators (contracts)
\* SignatorySet::from_validator_ctx: the weighted signers valid for one
\* checkpoint index; validators without a registered key are excluded.
from_validator_ctx(i, sig_keys) ==
    [index |-> i,
     signers |-> {[key |-> v, weight |-> VotingPower(v)] : v \in sig_keys}]

\* SignatorySet::len
sigset_len(sigset) == Cardinality(sigset.signers)

SignatorySet_default == [index |-> 0, signers |-> {}]

RECURSIVE SumWeights(_)
SumWeights(S) ==
    IF S = {} THEN 0
    ELSE LET s == CHOOSE x \in S : TRUE IN s.weight + SumWeights(S \ {s})

\* Total weight of a SignatorySet, and the weight of the members that signed.
total_weight(sigset) == SumWeights(sigset.signers)
signed_weight(sig, sigset) ==
    SumWeights({s \in sigset.signers : s.key \in sig.signed})

ThresholdSig_default == [signed |-> {}]

\* ThresholdSig::sign accepts a signature iff it is valid for the signing
\* message under pubkey, pubkey is a member, and pubkey has not signed yet.
sign_accepts(sig, sigset, pubkey, signature) ==
    /\ signature.by = pubkey
    /\ signature.msg = "sighash"
    /\ \E s \in sigset.signers : s.key = pubkey
    /\ pubkey \notin sig.signed

\* ThresholdSig::sign: Ok and the member recorded, or Err and nothing changed.
sign(sig, sigset, pubkey, signature) ==
    IF sign_accepts(sig, sigset, pubkey, signature)
    THEN [res |-> "Ok", sig |-> [sig EXCEPT !.signed = @ \cup {pubkey}]]
    ELSE [res |-> "SignatureRejected", sig |-> sig]

\* ThresholdSig::done
done(sig, sigset) ==
    signed_weight(sig, sigset) * 100 >= total_weight(sigset) * INITIAL_QUORUM_PERCENT

\* ------------------------------------------------------------ data model
CheckpointStatus_default_signing == "Signing"
CheckpointStatus_default == "Building"

Input_default == [txid |-> 0, vout |-> 0, sig |-> ThresholdSig_default]

Checkpoint_default ==
    [status |-> CheckpointStatus_default,
     inputs |-> <<>>,
     outputs |-> <<>>,
     sig |-> ThresholdSig_default,
     sigset |-> SignatorySet_default]

\* Building < Signing < Complete
StatusRank(s) == CASE s = "Building" -> 0 [] s = "Signing" -> 1 [] s = "Complete" -> 2

\* ------------------------------------------------------ u32 arithmetic
\* a - b on u32 operands overflows when a < b: the build then either panics
\* or wraps, and the accessors below report either outcome as "Overflow".
u32_sub_overflows(a, b) == a < b

\* ------------------------------------------------------------- accessors
\* get_deque_index: Ok and the Deque position (from 0), or the error.
get_deque_index_off_by_one(q, idx, i) ==
    LET start == idx + 1 - Len(q) IN
    IF u32_sub_overflows(idx + 1, Len(q)) THEN [res |-> "Overflow", pos |-> 0]
    ELSE IF i >= idx \/ i < start THEN [res |-> "IndexOutOfBounds", pos |-> 0]
    ELSE [res |-> "Ok", pos |-> i - start]

get_deque_index(q, idx, i) ==
    LET start == idx + 1 - Len(q) IN
    IF u32_sub_overflows(idx + 1, Len(q)) THEN [res |-> "Overflow", pos |-> 0]
    ELSE IF i > idx \/ i < start THEN [res |-> "IndexOutOfBounds", pos |-> 0]
    ELSE [res |-> "Ok", pos |-> i - start]

\* get / get_mut: the position of the entry get_deque_index resolves; the
\* handle itself is queue[pos + 1].
get(q, idx, i) == get_deque_index(q, idx, i)
get_mut(q, idx, i) == get_deque_index(q, idx, i)

\* signing_mut without the status test.
signing_mut_any_status(q, idx) ==
    IF Len(q) < 2 THEN [res |-> "None", pos |-> 0]
    ELSE IF u32_sub_overflows(idx, 1) THEN [res |-> "Overflow", pos |-> 0]
    ELSE LET second == get_mut(q, idx, idx - 1) IN
         IF second.res # "Ok" THEN second
         ELSE [res |-> "Some", pos |-> second.pos]

\* signing_mut: None, Some and the position of the second-newest entry, or
\* the error get_mut returned.
signing_mut(q, idx) ==
    IF Len(q) < 2 THEN [res |-> "None", pos |-> 0]
    ELSE IF u32_sub_overflows(idx, 1) THEN [res |-> "Overflow", pos |-> 0]
    ELSE LET second == get_mut(q, idx, idx - 1) IN
         IF second.res # "Ok" THEN second
         ELSE IF q[second.pos + 1].status # "Signing" THEN [res |-> "None", pos |-> 0]
         ELSE [res |-> "Some", pos |-> second.pos]

signing(q, idx) == signing_mut(q, idx)

\* building_mut resolving the oldest entry instead of the newest.
building_mut_oldest(q, idx) == get_mut(q, idx, idx + 1 - Len(q))
building_mut(q, idx) == get_mut(q, idx, idx)
\* building resolving the entry before the newest.
building_second(q, idx) == get(q, idx, idx - 1)
building(q, idx) == get(q, idx, idx)

\* all, lines 157-158: the Deque position read for the pair with offset i
\* from the newest, self.queue.get(index) with index = self.index - i.
all_position_by_offset(idx, i) == i
all_position(idx, i) == idx - i

\* all: the (global index, checkpoint) pairs, newest first.  A subtraction
\* that overflows or a position the Deque does not hold (unwrap of None)
\* ends the call at the first offset where it happens.
all(q, idx) ==
    LET offsets == 0..(Len(q) - 1)
        overflows(i) == u32_sub_overflows(idx, i)
        missing(i) == all_position(idx, i) + 1 \notin DOMAIN q
        bad == {i \in offsets : overflows(i) \/ missing(i)}
        first == CHOOSE i \in bad : \A j \in bad : i <= j
    IN  IF bad = {}
        THEN [res |-> "Ok",
              val |-> [k \in 1..Len(q) |->
                          <<idx - (k - 1), q[all_position(idx, k - 1) + 1]>>]]
        ELSE IF overflows(first) THEN [res |-> "Overflow", val |-> <<>>]
        ELSE [res |-> "Panic", val |-> <<>>]

\* completed, lines 172-180: the entries from Deque position i (from 1) up to
\* the first one that is not Complete.
RECURSIVE completed_from(_, _)
completed_from(q, i) ==
    IF i > Len(q) THEN <<>>
    ELSE IF q[i].status # "Complete" THEN <<>>
    ELSE <<q[i]>> \o completed_from(q, i + 1)

completed(q) == [res |-> "Ok", val |-> completed_from(q, 1)]

\* active_sigset: a copy of the sigset of the entry building() returns.
active_sigset(q, idx) ==
    LET last == building(q, idx) IN
    IF last.res # "Ok" THEN [res |-> last.res, val |-> SignatorySet_default]
    ELSE [res |-> "Ok", val |-> q[last.pos + 1].sigset]

\* ------------------------------------------------------------ operations
\* push_building, lines 253-256: the index moves on unless the queue is empty.
advance_index_always(q, idx) == idx + 1
advance_index_never(q, idx) == idx
advance_index(q, idx) == IF Len(q) # 0 THEN idx + 1 ELSE idx

\* push_building: the queue and index afterwards, and the result.
push_building(q, idx, sig_keys) ==
    LET captured == idx
        idx1 == advance_index(q, idx)
        sigset == from_validator_ctx(captured, sig_keys)
        q1 == Append(q, Checkpoint_default)
        last == building_mut(q1, idx1)
    IN  IF last.res # "Ok" THEN [queue |-> q1, index |-> idx1, res |-> last.res]
        ELSE [queue |-> IF feature_full
                        THEN [q1 EXCEPT ![last.pos + 1].sigset = sigset]
                        ELSE q1,
              index |-> idx1,
              res |-> "Ok"]

\* maybe_advance, line 228: a derived SignatorySet without signers stops
\* the initialisation.
sigset_is_empty_never(sigset) == FALSE
sigset_is_empty(sigset) == sigset_len(sigset) = 0

\* maybe_advance without the test that the queue is empty.
maybe_advance_any_queue(q, idx, sig_keys) ==
    IF feature_full
    THEN IF sigset_is_empty(from_validator_ctx(idx, sig_keys))
         THEN [queue |-> q, index |-> idx, res |-> "Ok"]
         ELSE push_building(q, idx, sig_keys)
    ELSE [queue |-> q, index |-> idx, res |-> "Ok"]

maybe_advance(q, idx, sig_keys) ==
    IF feature_full /\ Len(q) = 0
    THEN IF sigset_is_empty(from_validator_ctx(idx, sig_keys))
         THEN [queue |-> q, index |-> idx, res |-> "Ok"]
         ELSE push_building(q, idx, sig_keys)
    ELSE [queue |-> q, index |-> idx, res |-> "Ok"]

\* sign_checkpoint, lines 281-284: the signed checkpoint becomes Complete
\* once its ThresholdSig is done.
mark_complete_always(cp) == [cp EXCEPT !.status = "Complete"]
mark_complete(cp) ==
    IF done(cp.sig, cp.sigset) THEN [cp EXCEPT !.status = "Complete"] ELSE cp

\* sign_checkpoint, lines 287-292: a default Input is pushed to the back of
\* the Building checkpoint's inputs, and the Input at the front gets vout 0.
push_reserve_input(cp) ==
    LET pushed == Append(cp.inputs, Input_default) IN
    [cp EXCEPT !.inputs = [pushed EXCEPT ![1].vout = 0]]

\* sign_checkpoint, lines 281-295, on the queue whose Signing entry (at
\* Deque position pos) has just recorded a signature.
complete_checkpoint(q, idx, pos) ==
    LET q1 == [q EXCEPT ![pos + 1] = mark_complete(@)]
        last == building_mut(q1, idx)
    IN  IF q1[pos + 1].status # "Complete" THEN [queue |-> q1, res |-> "Ok"]
        ELSE IF last.res # "Ok" THEN [queue |-> q1, res |-> last.res]
        ELSE [queue |-> [q1 EXCEPT ![last.pos + 1] = push_reserve_input(@)],
              res |-> "Ok"]

\* sign_checkpoint with the error of ThresholdSig::sign dropped instead of
\* returned.
sign_checkpoint_error_dropped(q, idx, pubkey, signature) ==
    LET found == signing_mut(q, idx) IN
    IF found.res = "None" THEN [queue |-> q, res |-> "NoCheckpointToSign"]
    ELSE IF found.res # "Some" THEN [queue |-> q, res |-> found.res]
    ELSE LET cp == q[found.pos + 1]
             signed == sign(cp.sig, cp.sigset, pubkey, signature)
         IN  complete_checkpoint(
                 [q EXCEPT ![found.pos + 1].sig = signed.sig], idx, found.pos)

\* sign_checkpoint: the queue afterwards and the result.
sign_checkpoint(q, idx, pubkey, signature) ==
    LET found == signing_mut(q, idx) IN
    IF found.res = "None" THEN [queue |-> q, res |-> "NoCheckpointToSign"]
    ELSE IF found.res # "Some" THEN [queue |-> q, res |-> found.res]
    ELSE LET cp == q[found.pos + 1]
             signed == sign(cp.sig, cp.sigset, pubkey, signature)
         IN  IF signed.res # "Ok" THEN [queue |-> q, res |-> signed.res]
             ELSE complete_checkpoint(
                      [q EXCEPT ![found.pos + 1].sig = signed.sig], idx, found.pos)

\* ----------------------------------------------------------------- state
\* The queue of a new chain: no checkpoint, index 0.
Init ==
    /\ queue = <<>>
    /\ index = 0
    /\ ret = [op |-> "new", arg |-> 0, res |-> "Ok", pos |-> 0]

MaybeAdvance ==
    \E sig_keys \in ValidatorCtxs :
        LET r == maybe_advance(queue, index, sig_keys) IN
        /\ queue' = r.queue
        /\ index' = r.index
        /\ ret' = [op |-> "maybe_advance", arg |-> sig_keys,
                   res |-> r.res, pos |-> 0]

PushBuilding ==
    /\ Len(queue) < MaxLen
    /\ \E sig_keys \in ValidatorCtxs :
        LET r == push_building(queue, index, sig_keys) IN
        /\ queue' = r.queue
        /\ index' = r.index
        /\ ret' = [op |-> "push_building", arg |-> sig_keys,
                   res |-> r.res, pos |-> 0]

SignCheckpoint ==
    \E pubkey \in Validators : \E signature \in Signatures(pubkey) :
        LET r == sign_checkpoint(queue, index, pubkey, signature) IN
        /\ queue' = r.queue
        /\ index' = index
        /\ ret' = [op |-> "sign_checkpoint",
                   arg |-> [pubkey |-> pubkey, signature |-> signature],
                   res |-> r.res, pos |-> 0]

\* get(i) for every global index a caller may ask for.
Get ==
    \E i \in 0..(MaxStart + MaxLen) :
        LET r == get(queue, index, i) IN
        /\ ret' = [op |-> "get", arg |-> i, res |-> r.res, pos |-> r.pos]
        /\ UNCHANGED <<queue, index>>

\* get_mut(i): the same resolution as get(i), for an exclusive handle.
GetMut ==
    \E i \in 0..(MaxStart + MaxLen) :
        LET r == get_mut(queue, index, i) IN
        /\ ret' = [op |-> "get_mut", arg |-> i, res |-> r.res, pos |-> r.pos]
        /\ UNCHANGED <<queue, index>>

\* index(): the global index of the newest checkpoint.
Index ==
    /\ ret' = [op |-> "index", arg |-> 0, res |-> "Ok", pos |-> 0, val |-> index]
    /\ UNCHANGED <<queue, index>>

All ==
    LET r == all(queue, index) IN
    /\ ret' = [op |-> "all", arg |-> 0, res |-> r.res, pos |-> 0, val |-> r.val]
    /\ UNCHANGED <<queue, index>>

Completed ==
    LET r == completed(queue) IN
    /\ ret' = [op |-> "completed", arg |-> 0, res |-> r.res, pos |-> 0, val |-> r.val]
    /\ UNCHANGED <<queue, index>>

Signing ==
    LET r == signing(queue, index) IN
    /\ ret' = [op |-> "signing", arg |-> 0, res |-> r.res, pos |-> r.pos]
    /\ UNCHANGED <<queue, index>>

SigningMut ==
    LET r == signing_mut(queue, index) IN
    /\ ret' = [op |-> "signing_mut", arg |-> 0, res |-> r.res, pos |-> r.pos]
    /\ UNCHANGED <<queue, index>>

Building ==
    LET r == building(queue, index) IN
    /\ ret' = [op |-> "building", arg |-> 0, res |-> r.res, pos |-> r.pos]
    /\ UNCHANGED <<queue, index>>

BuildingMut ==
    LET r == building_mut(queue, index) IN
    /\ ret' = [op |-> "building_mut", arg |-> 0, res |-> r.res, pos |-> r.pos]
    /\ UNCHANGED <<queue, index>>

ActiveSigset ==
    LET r == active_sigset(queue, index) IN
    /\ ret' = [op |-> "active_sigset", arg |-> 0, res |-> r.res, pos |-> 0,
               val |-> r.val]
    /\ UNCHANGED <<queue, index>>

\* The read-only calls.
Query ==
    \/ Get \/ GetMut \/ Index \/ All \/ Completed
    \/ Signing \/ SigningMut \/ Building \/ BuildingMut \/ ActiveSigset

Next == MaybeAdvance \/ PushBuilding \/ SignCheckpoint \/ Query

Spec == Init /\ [][Next]_vars

\* ------------------------------------------------- a queue from the store
\* CheckpointQueue is State: a node restores it from the store.  The queues
\* restored here have the lifecycle shape of the data model: Complete
\* entries, then possibly one Signing (or still Building) entry, then the
\* Building entry, which may already hold deposit Inputs; the window starts
\* at global index 0 or at MaxStart.

\* The index push_building derives the SignatorySet for (the index captured
\* before the increment), for the checkpoint with global index g.
captured_index(g) == IF g = 0 THEN 0 ELSE g - 1

DepositInputs ==
    { [k \in 1..n |-> [txid |-> 100 + k, vout |-> k, sig |-> ThresholdSig_default]] :
        n \in 0..MaxDeposits }

StoredBuilding(g, sig_keys, deposits) ==
    [status |-> "Building",
     inputs |-> deposits,
     outputs |-> <<>>,
     sig |-> ThresholdSig_default,
     sigset |-> from_validator_ctx(captured_index(g), sig_keys)]

\* A checkpoint that has collected the signatures of `signed`: Signing while
\* its ThresholdSig is not done, Complete once it is.
StoredSigned(g, sig_keys, signed) ==
    LET sigset == from_validator_ctx(captured_index(g), sig_keys)
        sig == [signed |-> signed]
    IN  [status |-> IF done(sig, sigset) THEN "Complete" ELSE "Signing",
         inputs |-> <<>>,
         outputs |-> <<>>,
         sig |-> sig,
         sigset |-> sigset]

StoredSecond(g, sig_keys) ==
    {StoredBuilding(g, sig_keys, <<>>)}
        \cup {StoredSigned(g, sig_keys, signed) : signed \in SUBSET sig_keys}

StoredQueues(n, start, sig_keys) ==
    IF n = 0 THEN {<<>>}
    ELSE { [p \in 1..n |->
              IF p = n THEN StoredBuilding(start + p - 1, sig_keys, deposits)
              ELSE IF p = n - 1 THEN second
              ELSE StoredSigned(start + p - 1, sig_keys, sig_keys)] :
           second \in StoredSecond(start + n - 2, sig_keys),
           deposits \in DepositInputs }

InitStored ==
    \E n \in 0..MaxLen, start \in {0, MaxStart}, sig_keys \in ValidatorCtxs :
        /\ n = 0 => start = 0
        /\ queue \in StoredQueues(n, start, sig_keys)
        /\ index = IF n = 0 THEN 0 ELSE start + n - 1
        /\ ret = [op |-> "new", arg |-> 0, res |-> "Ok", pos |-> 0]

SpecStored == InitStored /\ [][Next]_vars

\* ------------------------------------------------------ the host's calls
\* What the host reaches: maybe_advance once per block, sign_checkpoint, and
\* the read-only calls.  push_building is private and only maybe_advance
\* calls it.
NextHost == MaybeAdvance \/ SignCheckpoint \/ Query

SpecHost == Init /\ [][NextHost]_vars

\* ---------------------------------------------------------------- claims
\* The window's global indices, and the entry a global index names.
WindowStart(q, idx) == idx + 1 - Len(q)
Window(q, idx) == IF Len(q) = 0 THEN {} ELSE WindowStart(q, idx)..idx
Entry(q, idx, g) == q[g - WindowStart(q, idx) + 1]

\* The second-newest entry is there and has status Signing.
HasSigning(q) == Len(q) >= 2 /\ q[Len(q) - 1].status = "Signing"

\* The transaction id of the checkpoint with global index g: the hash of a
\* transaction, which is never the all-zero default Txid.
CheckpointTxid(g) == g + 1

C2_MonotonicStatus ==
    [][\/ UNCHANGED <<queue, index>>
       \/ \A g \in Window(queue, index) :
          /\ g \in Window(queue', index')
          /\ StatusRank(Entry(queue', index', g).status)
                >= StatusRank(Entry(queue, index, g).status)
          /\ Entry(queue, index, g).status = "Complete" =>
                /\ Entry(queue', index', g).status = "Complete"
                /\ Entry(queue', index', g).inputs = Entry(queue, index, g).inputs
                /\ Entry(queue', index', g).outputs = Entry(queue, index, g).outputs
                /\ Entry(queue', index', g).sig = Entry(queue, index, g).sig]_vars

\* C2 witness: a sign_checkpoint call has just completed a checkpoint that
\* sits behind an older Complete one.
C2_Witness ==
    /\ ret.op = "sign_checkpoint"
    /\ ret.res = "Ok"
    /\ Len(queue) >= 3
    /\ queue[Len(queue) - 1].status = "Complete"
    /\ queue[Len(queue) - 2].status = "Complete"
    /\ Len(queue[Len(queue)].inputs) > 0

\* C3: a sign_checkpoint call on a queue with a Signing checkpoint leaves
\* that checkpoint Complete iff the signature was recorded and the weight
\* signed afterwards is at least 70% of the SignatorySet's total weight;
\* otherwise the checkpoint is still Signing.
C3_QuorumCompletion ==
    [][(ret'.op = "sign_checkpoint" /\ HasSigning(queue)) =>
          LET p == Len(queue) - 1
              after == queue'[p]
              reached ==
                  signed_weight(after.sig, after.sigset) * 100
                      >= INITIAL_QUORUM_PERCENT * total_weight(after.sigset)
          IN  /\ after.status = "Complete" <=> (ret'.res = "Ok" /\ reached)
              /\ after.status \in {"Signing", "Complete"}]_vars

\* C3 witness: three equally weighted signers, the third signature has just
\* been accepted and the checkpoint is Complete.
C3_Witness ==
    /\ ret.op = "sign_checkpoint"
    /\ ret.res = "Ok"
    /\ Len(queue) >= 2
    /\ LET cp == queue[Len(queue) - 1] IN
        /\ cp.status = "Complete"
        /\ Cardinality(cp.sigset.signers) = 3
        /\ \A s \in cp.sigset.signers : s.weight = 1 /\ s.key \in cp.sig.signed
        /\ ret.arg.pubkey \in cp.sig.signed

\* C4: a sign_checkpoint call that completes the Signing checkpoint appends
\* exactly one Input to the Building checkpoint, and that Input references
\* output 0 of the completed checkpoint's transaction; a sign_checkpoint call
\* that completes nothing leaves the Building checkpoint's inputs alone.
C4_ReserveChaining ==
    [][(ret'.op = "sign_checkpoint" /\ Len(queue) >= 1) =>
          LET n == Len(queue)
              before == queue[n].inputs
              after == queue'[n].inputs
              completes == /\ HasSigning(queue)
                           /\ queue'[n - 1].status = "Complete"
          IN  IF completes
              THEN /\ Len(after) = Len(before) + 1
                   /\ after[Len(after)].vout = 0
                   /\ after[Len(after)].txid = CheckpointTxid(index - 1)
              ELSE after = before]_vars

\* C5: no step moves the global index backward or by more than 1; a
\* push_building call on the empty queue leaves it at 0, and every other
\* push_building call adds exactly 1.
C5_IndexMonotonic ==
    [][/\ index' >= index
       /\ index' <= index + 1
       /\ ret'.op = "push_building" =>
            IF Len(queue) = 0 THEN index = 0 /\ index' = 0
            ELSE index' = index + 1]_vars

\* C5 witness: push_building has been called on the empty queue and again
\* until the window is full.
C5_Witness ==
    /\ ret.op = "push_building"
    /\ Len(queue) = MaxLen
    /\ index = MaxLen - 1

\* C6: get(r) succeeds exactly when start <= r <= index, with
\* start = index + 1 - window length, and then resolves to Deque position
\* r - start; every other r fails with Index-Out-Of-Bounds.
C6_GetInWindow ==
    ret.op = "get" =>
        LET start == index + 1 - Len(queue)
            valid == start <= ret.arg /\ ret.arg <= index
        IN  /\ ret.res = "Ok" <=> valid
            /\ valid => /\ ret.pos = ret.arg - start
                        /\ ret.pos + 1 \in DOMAIN queue
            /\ ~valid => ret.res = "IndexOutOfBounds"

\* C6 witness: get(5) on a window holding the global indices 3..4 has failed.
C6_Witness ==
    /\ ret.op = "get"
    /\ ret.arg = 5
    /\ index = 4
    /\ Len(queue) = 2
    /\ ret.res = "IndexOutOfBounds"

\* C7: a sign_checkpoint call on a queue without a Signing checkpoint (fewer
\* than 2 entries, or a second-newest entry that is not Signing) fails with
\* No-Checkpoint-To-Sign and leaves queue and index unchanged.
C7_NoCheckpointToSign ==
    [][(ret'.op = "sign_checkpoint" /\ ~HasSigning(queue)) =>
          /\ ret'.res = "NoCheckpointToSign"
          /\ queue' = queue
          /\ index' = index]_vars

\* C7 witness: sign_checkpoint has failed on a window whose second-newest
\* entry is Complete, with a signature that its signers would accept.
C7_Witness ==
    /\ ret.op = "sign_checkpoint"
    /\ ret.res = "NoCheckpointToSign"
    /\ Len(queue) >= 2
    /\ queue[Len(queue) - 1].status = "Complete"
    /\ ret.arg.signature = [by |-> ret.arg.pubkey, msg |-> "sighash"]
    /\ \E s \in queue[Len(queue) - 1].sigset.signers : s.key = ret.arg.pubkey
    /\ ret.arg.pubkey \notin queue[Len(queue) - 1].sig.signed

\* The submitted signature is one the Signing checkpoint cp must reject: not
\* valid for the signing message under pubkey, from a non-member, or from a
\* member that has signed already.
Rejected(cp, arg) ==
    \/ arg.signature.by # arg.pubkey
    \/ arg.signature.msg # "sighash"
    \/ arg.pubkey \notin {s.key : s \in cp.sigset.signers}
    \/ arg.pubkey \in cp.sig.signed

\* C8: a sign_checkpoint call whose signature the Signing checkpoint's
\* ThresholdSig rejects returns that error and changes nothing: queue and
\* index are as before.
C8_RejectedSignature ==
    [][(/\ ret'.op = "sign_checkpoint"
        /\ HasSigning(queue)
        /\ Rejected(queue[Len(queue) - 1], ret'.arg)) =>
          /\ ret'.res = "SignatureRejected"
          /\ queue' = queue
          /\ index' = index]_vars

\* C8 witness: a member that has signed already has submitted its valid
\* signature again and got the error.
C8_Witness ==
    /\ ret.op = "sign_checkpoint"
    /\ ret.res = "SignatureRejected"
    /\ HasSigning(queue)
    /\ ret.arg.signature = [by |-> ret.arg.pubkey, msg |-> "sighash"]
    /\ ret.arg.pubkey \in queue[Len(queue) - 1].sig.signed

\* C9: maybe_advance on the empty queue: without a registered signer the
\* queue stays empty and the index 0; otherwise the queue then holds one
\* checkpoint, at index 0, Building, without inputs and outputs, whose
\* SignatorySet has one signer per registered key.
C9_MaybeAdvanceInit ==
    [][(ret'.op = "maybe_advance" /\ Len(queue) = 0) =>
          IF ret'.arg = {}
          THEN queue' = <<>> /\ index' = 0
          ELSE /\ Len(queue') = 1
               /\ index' = 0
               /\ queue'[1].status = "Building"
               /\ queue'[1].inputs = <<>>
               /\ queue'[1].outputs = <<>>
               /\ {s.key : s \in queue'[1].sigset.signers} = ret'.arg
               /\ Cardinality(queue'[1].sigset.signers) = Cardinality(ret'.arg)
               /\ ret'.res = "Ok"]_vars

\* C9 witness: maybe_advance with three registered signers has created the
\* first checkpoint.
C9_Witness ==
    /\ ret.op = "maybe_advance"
    /\ Cardinality(ret.arg) = 3
    /\ Len(queue) = 1
    /\ index = 0
    /\ queue[1].status = "Building"
    /\ Cardinality(queue[1].sigset.signers) = 3

\* C10: the newest entry of a nonempty queue has status Building, and no
\* step changes the status of the entry that was the newest before it.
C10_NewestIsBuilding ==
    /\ [](Len(queue) > 0 => queue[Len(queue)].status = "Building")
    /\ [][Len(queue) > 0 =>
            /\ index \in Window(queue', index')
            /\ Entry(queue', index', index).status = queue[Len(queue)].status]_vars

\* C10 witness: a checkpoint has just been completed and the newest entry,
\* which got the reserve Input, is Building.
C10_Witness ==
    /\ ret.op = "sign_checkpoint"
    /\ ret.res = "Ok"
    /\ Len(queue) >= 2
    /\ queue[Len(queue) - 1].status = "Complete"
    /\ queue[Len(queue)].status = "Building"
    /\ Len(queue[Len(queue)].inputs) = MaxDeposits + 1

\* C11: in every state reached from the empty queue by maybe_advance,
\* push_building and sign_checkpoint, every entry other than the two newest
\* has status Complete.
C11_OlderAreComplete ==
    \A p \in 1..Len(queue) : p <= Len(queue) - 2 => queue[p].status = "Complete"

\* C12: all() returns one pair per entry of the window, with the global
\* indices index, index - 1, ..., index + 1 - window length in that order,
\* each pair carrying the checkpoint its global index names (the one get
\* resolves); on the empty queue it returns the empty list.
C12_AllNewestFirst ==
    ret.op = "all" =>
        /\ ret.res = "Ok"
        /\ Len(ret.val) = Len(queue)
        /\ \A k \in 1..Len(ret.val) :
              /\ ret.val[k][1] = index - (k - 1)
              /\ ret.val[k][1] \in Window(queue, index)
              /\ ret.val[k][2] = Entry(queue, index, ret.val[k][1])

\* C12 witness: all() has returned the pairs of a full window whose newest
\* and oldest checkpoints differ.
C12_Witness ==
    /\ ret.op = "all"
    /\ ret.res = "Ok"
    /\ Len(queue) = MaxLen
    /\ Len(ret.val) = MaxLen
    /\ ret.val[1][2] # ret.val[MaxLen][2]

\* C13: completed() returns, oldest first, the longest prefix of the window
\* whose entries are all Complete; that prefix is the window without its
\* newest one or two entries, and it holds every Complete entry of the
\* window.
C13_CompletedPrefix ==
    ret.op = "completed" =>
        LET n == Len(ret.val) IN
        /\ ret.res = "Ok"
        /\ n <= Len(queue)
        /\ \A p \in 1..n : ret.val[p] = queue[p] /\ queue[p].status = "Complete"
        /\ n < Len(queue) => queue[n + 1].status # "Complete"
        /\ \A p \in 1..Len(queue) : queue[p].status = "Complete" => p <= n
        /\ Len(queue) >= 2 => n \in {Len(queue) - 1, Len(queue) - 2}
        /\ Len(queue) <= 1 => n = 0

\* The configured capacity of the window: any capacity the queue can be
\* pushed beyond; here one less than the pushes the model takes.
WindowCapacity == MaxLen - 1

\* C14: the queue is a bounded window: the number of retained checkpoints
\* never exceeds the configured capacity, a push_building call on a full
\* window evicts the oldest entry, and in every push_building call the
\* entries that stay keep their global indices.
C14_BoundedWindow ==
    /\ [](Len(queue) <= WindowCapacity)
    /\ [][ret'.op = "push_building" =>
            /\ Len(queue) = WindowCapacity =>
                  /\ Len(queue') = WindowCapacity
                  /\ WindowStart(queue', index') = WindowStart(queue, index) + 1
            /\ \A g \in Window(queue, index) \cap Window(queue', index') :
                  Entry(queue', index', g) = Entry(queue, index, g)]_vars

\* C15: a checkpoint's SignatorySet is the one derived in the push_building
\* call that creates it, no step changes the SignatorySet of a checkpoint
\* already in the window, and active_sigset() on a nonempty queue returns the
\* newest checkpoint's SignatorySet.  A step that leaves queue and index as
\* they were changes no SignatorySet.
C15_SigsetFixed ==
    /\ [][/\ \/ UNCHANGED <<queue, index>>
             \/ \A g \in Window(queue, index) :
                   /\ g \in Window(queue', index')
                   /\ Entry(queue', index', g).sigset
                         = Entry(queue, index, g).sigset
          /\ ret'.op = "push_building" =>
                {s.key : s \in queue'[Len(queue')].sigset.signers} = ret'.arg]_vars
    /\ []((ret.op = "active_sigset" /\ Len(queue) > 0) =>
            (ret.res = "Ok" /\ ret.val = queue[Len(queue)].sigset))

\* C15 witness: push_building has run with a validator context other than
\* the one of the checkpoint before, which has kept its signers.
C15_Witness ==
    /\ ret.op = "push_building"
    /\ Len(queue) >= 2
    /\ ret.arg # {}
    /\ queue[Len(queue) - 1].sigset.signers # {}
    /\ queue[Len(queue) - 1].sigset.signers # queue[Len(queue)].sigset.signers

\* C16: a maybe_advance call on a nonempty queue returns Ok and changes
\* nothing, whatever the validator context: the window, every checkpoint in
\* it and the index are as before.
C16_MaybeAdvanceNoop ==
    [][(ret'.op = "maybe_advance" /\ Len(queue) > 0) =>
          /\ ret'.res = "Ok"
          /\ queue' = queue
          /\ index' = index]_vars

\* C16 witness: maybe_advance has been called with registered signers on a
\* window whose newest checkpoint is Building behind a Complete one, and
\* neither has moved.
C16_Witness ==
    /\ ret.op = "maybe_advance"
    /\ ret.arg # {}
    /\ Len(queue) = 2
    /\ queue[1].status = "Complete"
    /\ queue[2].status = "Building"

\* C17: under the calls the host makes (maybe_advance, sign_checkpoint and
\* the queries, from the empty queue) the window never holds more than one
\* checkpoint, no checkpoint is Signing or Complete, and every
\* sign_checkpoint call fails with No-Checkpoint-To-Sign.
C17_HostNeverCompletes ==
    /\ Len(queue) <= 1
    /\ \A p \in 1..Len(queue) : queue[p].status = "Building"
    /\ ret.op = "sign_checkpoint" => ret.res = "NoCheckpointToSign"

\* C17 witness: a member of the only checkpoint's SignatorySet has submitted
\* a valid signature and sign_checkpoint has failed.
C17_Witness ==
    /\ ret.op = "sign_checkpoint"
    /\ ret.res = "NoCheckpointToSign"
    /\ Len(queue) = 1
    /\ ret.arg.signature = [by |-> ret.arg.pubkey, msg |-> "sighash"]
    /\ \E s \in queue[1].sigset.signers : s.key = ret.arg.pubkey

\* C18: a sign_checkpoint call that completes a checkpoint while the
\* Building checkpoint already holds Inputs leaves those Inputs as they are
\* (txid, vout, signature state, order) and appends one Input, whose vout is 0.
C18_ExistingInputsKept ==
    [][(/\ ret'.op = "sign_checkpoint"
        /\ HasSigning(queue)
        /\ queue'[Len(queue) - 1].status = "Complete"
        /\ Len(queue[Len(queue)].inputs) >= 1) =>
          LET before == queue[Len(queue)].inputs
              after == queue'[Len(queue)].inputs
          IN  /\ Len(after) = Len(before) + 1
              /\ \A k \in 1..Len(before) : after[k] = before[k]
              /\ after[Len(after)].vout = 0]_vars

\* C19: in every reachable state the window length is at most index + 1 (and
\* index is at least 1 when the window holds two or more entries), so none
\* of the u32 subtractions of the accessors overflows: index + 1 - length in
\* get_deque_index, index - i for i < length in all(), index - 1 in
\* signing()/signing_mut(); no call reports an overflow.
C19_NoUnderflow ==
    /\ Len(queue) <= index + 1
    /\ Len(queue) >= 2 => index >= 1
    /\ \A i \in 0..(Len(queue) - 1) : index - i >= 0
    /\ ret.res # "Overflow"

\* C19 witness: all() has walked a full window that starts at global index
\* 0, where its last subtraction index - i gives exactly 0.
C19_Witness ==
    /\ ret.op = "all"
    /\ ret.res = "Ok"
    /\ Len(queue) = MaxLen
    /\ index + 1 - Len(queue) = 0

\* C20 as claimed: building(), building_mut() and active_sigset() return the
\* newest entry in every reachable state, the initial one included.
C20_BuildingUnconditional ==
    ret.op \in {"building", "building_mut", "active_sigset"} => ret.res = "Ok"

\* C20 as amended: on a nonempty queue building() and building_mut() resolve
\* the newest entry (the last Deque position, the one get(index) resolves)
\* and active_sigset() returns that entry's SignatorySet; on the empty queue
\* all three fail with Index-Out-Of-Bounds.
C20_BuildingIsNewest ==
    ret.op \in {"building", "building_mut", "active_sigset"} =>
        IF Len(queue) = 0
        THEN ret.res = "IndexOutOfBounds"
        ELSE /\ ret.res = "Ok"
             /\ ret.op # "active_sigset" =>
                   /\ ret.pos = Len(queue) - 1
                   /\ queue[ret.pos + 1] = Entry(queue, index, index)
             /\ ret.op = "active_sigset" => ret.val = Entry(queue, index, index).sigset

\* C20 witness: active_sigset() has failed on the queue before the first
\* push.
C20_Witness ==
    /\ ret.op = "active_sigset"
    /\ Len(queue) = 0
    /\ index = 0
    /\ ret.res = "IndexOutOfBounds"
====
